---- MODULE Spec2Model ----
(***************************************************************************)
(* Per-path state of a QUIC connection: quinn-proto/src/connection/paths.rs *)
(*                                                                         *)
(* PathData (the path record), RttEstimator (the RFC 6298 filter) and the  *)
(* anti-amplification gate.  Durations are natural numbers of the          *)
(* Duration's smallest unit; Duration / 2, / 4 and / 8 truncate.  The u64  *)
(* byte counters are kept at a scaled-down width of CounterBits bits.      *)
(* The congestion controller is a boxed object: a path holds the address   *)
(* of a cell of `heap`.  The code that owns the paths (the connection) is  *)
(* not in paths.rs; its steps below follow the specification's section 4.2 *)
(* and 6: it creates and supersedes paths, counts datagrams, validates,    *)
(* issues challenges, samples RTT, adapts the window and changes the MTU.  *)
(***************************************************************************)
EXTENDS Integers, Sequences, FiniteSets, TLC

\* ------------------------------------------------------------- bounds
\* Largest initial RTT guess, ack delay and RTT sample of the estimator runs.
MaxGuess == 3
MaxDelay == 2
MaxRtt == 7
\* Largest datagram and largest per-path receive total of the gate runs.
MaxDatagram == 3
MaxRecvd == 2
\* Largest per-path counter value of the migration runs.
MaxMigBytes == 1
\* Largest initial guess and RTT sample of the runs that migrate estimators.
MaxMigRtt == 2
\* Scaled-down width of the u64 counters total_sent and total_recvd.
CounterBits == 6

\* ---------------------------------------------------------- constants
\* crate::MIN_MTU and crate::TIMER_GRANULARITY (imported at paths.rs:4).
MIN_MTU == 1232
TIMER_GRANULARITY == 1
\* The window a freshly built controller reports (Controller::initial_window).
InitialWindow == 2

\* The two paths a connection keeps: the one in use and the one it replaced.
Slots == {"path", "prev_path"}

\* Option<T>: None, or Some(x).
None == << >>
Some(x) == << x >>

NoPath == [exists |-> FALSE]
NoCtrl == [allocated |-> FALSE]

Min(a, b) == IF a < b THEN a ELSE b
Max(a, b) == IF a > b THEN a ELSE b

\* ------------------------------------------------------ u64 arithmetic
Modulus == 2 ^ CounterBits
\* u64 `*` and `+` as an optimised build computes them (wrapping).
wrapping_mul(a, b) == (a * b) % Modulus
wrapping_add(a, b) == (a + b) % Modulus

VARIABLES paths, heap, ghost, last

vars == << paths, heap, ghost, last >>

\* -------------------------------------------------------- RttEstimator
\* Faulty variant: the variance is seeded with the whole guess.
RttEstimator_new_full_var(initial_rtt) ==
    [latest |-> initial_rtt,
     smoothed |-> None,
     var |-> initial_rtt,
     min |-> initial_rtt]

RttEstimator_new(initial_rtt) ==
    [latest |-> initial_rtt,
     smoothed |-> None,
     var |-> initial_rtt \div 2,
     min |-> initial_rtt]

\* Faulty variant: the latest sample, whether or not smoothed is present.
RttEstimator_get_latest(self) == self.latest

\* get(): smoothed.unwrap_or(latest)
RttEstimator_get(self) ==
    IF self.smoothed # None THEN self.smoothed[1] ELSE self.latest

\* Faulty variant: the smoothed estimate alone.
RttEstimator_conservative_smoothed(self) == RttEstimator_get(self)

\* conservative(): get().max(latest)
RttEstimator_conservative(self) == Max(RttEstimator_get(self), self.latest)

\* Faulty variant: the smaller of the two terms is added.
RttEstimator_pto_base_min(self) ==
    RttEstimator_get(self) + Min(4 * self.var, TIMER_GRANULARITY)

\* pto_base(): get() + max(4 * var, TIMER_GRANULARITY)
RttEstimator_pto_base(self) ==
    RttEstimator_get(self) + Max(4 * self.var, TIMER_GRANULARITY)

\* Faulty variant: the delay is subtracted whenever it is below the sample,
\* without regard to the minimum.
adjusted_rtt_ignoring_min(min, ack_delay, latest) ==
    IF ack_delay < latest THEN latest - ack_delay ELSE latest

\* Faulty variant: the delay is also subtracted when it reaches the minimum.
adjusted_rtt_inclusive(min, ack_delay, latest) ==
    IF min + ack_delay <= latest THEN latest - ack_delay ELSE latest

\* update, lines 106-110: the ack-delay-adjusted sample, from the already
\* lowered minimum, the reported delay and the latest sample.
adjusted_rtt(min, ack_delay, latest) ==
    IF min + ack_delay < latest THEN latest - ack_delay ELSE latest

\* Duration's `-` panics when the subtrahend is larger than the minuend.
sub_underflows(a, b) == b > a

\* Faulty variant: latest - ack_delay is evaluated whatever the delay is.
update_underflows_unguarded(min, smoothed, ack_delay, latest) ==
    LET adjusted == adjusted_rtt(min, ack_delay, latest)
    IN  \/ sub_underflows(latest, ack_delay)
        \/ (smoothed > adjusted /\ sub_underflows(smoothed, adjusted))
        \/ (~(smoothed > adjusted) /\ sub_underflows(adjusted, smoothed))

\* update, lines 106-115: whether one of the call's Duration subtractions
\* (latest - ack_delay, smoothed - adjusted_rtt, adjusted_rtt - smoothed)
\* is evaluated with a subtrahend larger than its minuend.
update_underflows(min, smoothed, ack_delay, latest) ==
    LET adjusted == adjusted_rtt(min, ack_delay, latest)
    IN  \/ (min + ack_delay < latest /\ sub_underflows(latest, ack_delay))
        \/ (smoothed > adjusted /\ sub_underflows(smoothed, adjusted))
        \/ (~(smoothed > adjusted) /\ sub_underflows(adjusted, smoothed))

\* Faulty variant: the variance sample is taken from the new smoothed value.
update_smoothed_var_after(self, smoothed, ack_delay) ==
    LET adjusted == adjusted_rtt(self.min, ack_delay, self.latest)
        after == (7 * smoothed + adjusted) \div 8
        var_sample == IF after > adjusted
                      THEN after - adjusted
                      ELSE adjusted - after
    IN  [self EXCEPT !.var = (3 * self.var + var_sample) \div 4,
                     !.smoothed = Some(after)]

\* update, the `if let Some(smoothed)` branch (lines 105-117).
update_smoothed(self, smoothed, ack_delay) ==
    LET adjusted == adjusted_rtt(self.min, ack_delay, self.latest)
        var_sample == IF smoothed > adjusted
                      THEN smoothed - adjusted
                      ELSE adjusted - smoothed
    IN  [self EXCEPT !.var = (3 * self.var + var_sample) \div 4,
                     !.smoothed = Some((7 * smoothed + adjusted) \div 8)]

\* Faulty variant: the first sample does not overwrite the minimum.
update_first_keeping_min(self) ==
    [self EXCEPT !.smoothed = Some(self.latest),
                 !.var = self.latest \div 2]

\* update, the `else` branch (lines 118-122): the first sample.
update_first(self) ==
    [self EXCEPT !.smoothed = Some(self.latest),
                 !.var = self.latest \div 2,
                 !.min = self.latest]

\* Faulty variant: the minimum follows the latest sample, up or down.
update_min_raising(self, rtt) ==
    [self EXCEPT !.latest = rtt, !.min = rtt]

\* Faulty variant: the minimum is not lowered by a later, smaller sample.
update_min_not_lowered(self, rtt) ==
    [self EXCEPT !.latest = rtt]

\* update, lines 101-103: latest is set, then the minimum is lowered.
update_min(self, rtt) ==
    LET s1 == [self EXCEPT !.latest = rtt]
    IN  [s1 EXCEPT !.min = Min(s1.min, s1.latest)]

\* update(&mut self, ack_delay, rtt), lines 100-123.
RttEstimator_update(self, ack_delay, rtt) ==
    LET s2 == update_min(self, rtt)
    IN  IF s2.smoothed # None
        THEN update_smoothed(s2, s2.smoothed[1], ack_delay)
        ELSE update_first(s2)

\* update, line 106: the local adjusted_rtt of a call that finds a smoothed
\* value (the first sample computes none: the latest sample is used as is).
update_adjusted(self, ack_delay, rtt) ==
    LET s2 == update_min(self, rtt)
    IN  IF s2.smoothed # None
        THEN adjusted_rtt(s2.min, ack_delay, s2.latest)
        ELSE s2.latest

\* update, lines 100-123: whether the call panics in a Duration subtraction
\* (the first sample subtracts nothing).
update_faults(self, ack_delay, rtt) ==
    LET s2 == update_min(self, rtt)
    IN  /\ s2.smoothed # None
        /\ update_underflows(s2.min, s2.smoothed[1], ack_delay, s2.latest)

\* ------------------------------------------- collaborators (interfaces)
\* Pacer::new(smoothed_rtt, window, mtu, now): the pacer is made of these.
Pacer_new(smoothed_rtt, window, mtu, now) ==
    [smoothed_rtt |-> smoothed_rtt, window |-> window, mtu |-> mtu, now |-> now]

\* A controller as built by its factory, with its current window.
Controller(window) ==
    [allocated |-> TRUE, initial_window |-> InitialWindow, window |-> window]

\* Controller::initial_window(), ::window() and ::clone_box().
initial_window(c) == c.initial_window
window(c) == c.window
clone_box(c) == c

\* ------------------------------------------------------------ PathData
\* Faulty variant: every new path counts as validated.
PathData_new_always_validated(remote, initial_rtt, congestion, ctrl, now, validated) ==
    [exists |-> TRUE,
     remote |-> remote,
     rtt |-> RttEstimator_new(initial_rtt),
     sending_ecn |-> TRUE,
     pacing |-> Pacer_new(initial_rtt, initial_window(ctrl), MIN_MTU, now),
     congestion |-> congestion,
     challenge |-> None,
     challenge_pending |-> FALSE,
     validated |-> TRUE,
     total_sent |-> 0,
     total_recvd |-> 0,
     mtu |-> MIN_MTU]

\* PathData::new; `congestion` is the address of the boxed controller.
PathData_new(remote, initial_rtt, congestion, ctrl, now, validated) ==
    [exists |-> TRUE,
     remote |-> remote,
     rtt |-> RttEstimator_new(initial_rtt),
     sending_ecn |-> TRUE,
     pacing |-> Pacer_new(initial_rtt, initial_window(ctrl), MIN_MTU, now),
     congestion |-> congestion,
     challenge |-> None,
     challenge_pending |-> FALSE,
     validated |-> validated,
     total_sent |-> 0,
     total_recvd |-> 0,
     mtu |-> MIN_MTU]

\* Faulty variant: the new path takes over the pacer of the path it replaces.
from_previous_copying_pacer(remote, prev, congestion, ctrl, now) ==
    [exists |-> TRUE,
     remote |-> remote,
     rtt |-> prev.rtt,
     pacing |-> prev.pacing,
     sending_ecn |-> TRUE,
     congestion |-> congestion,
     challenge |-> None,
     challenge_pending |-> FALSE,
     validated |-> FALSE,
     total_sent |-> 0,
     total_recvd |-> 0,
     mtu |-> prev.mtu]

\* Faulty variant: the new path keeps the validation of the path it replaces.
from_previous_keeping_validated(remote, prev, congestion, ctrl, now) ==
    [exists |-> TRUE,
     remote |-> remote,
     rtt |-> prev.rtt,
     pacing |-> Pacer_new(RttEstimator_get(prev.rtt), window(ctrl), prev.mtu, now),
     sending_ecn |-> TRUE,
     congestion |-> congestion,
     challenge |-> None,
     challenge_pending |-> FALSE,
     validated |-> prev.validated,
     total_sent |-> 0,
     total_recvd |-> 0,
     mtu |-> prev.mtu]

\* Faulty variant: the new path starts a new estimator from the smoothed RTT.
from_previous_resetting_rtt(remote, prev, congestion, ctrl, now) ==
    [exists |-> TRUE,
     remote |-> remote,
     rtt |-> RttEstimator_new(RttEstimator_get(prev.rtt)),
     pacing |-> Pacer_new(RttEstimator_get(prev.rtt), window(ctrl), prev.mtu, now),
     sending_ecn |-> TRUE,
     congestion |-> congestion,
     challenge |-> None,
     challenge_pending |-> FALSE,
     validated |-> FALSE,
     total_sent |-> 0,
     total_recvd |-> 0,
     mtu |-> prev.mtu]

\* PathData::from_previous; `congestion` is the address of the clone `ctrl`
\* of prev's controller.
PathData_from_previous(remote, prev, congestion, ctrl, now) ==
    LET smoothed_rtt == RttEstimator_get(prev.rtt)
    IN  [exists |-> TRUE,
         remote |-> remote,
         rtt |-> prev.rtt,
         pacing |-> Pacer_new(smoothed_rtt, window(ctrl), prev.mtu, now),
         sending_ecn |-> TRUE,
         congestion |-> congestion,
         challenge |-> None,
         challenge_pending |-> FALSE,
         validated |-> FALSE,
         total_sent |-> 0,
         total_recvd |-> 0,
         mtu |-> prev.mtu]

\* Faulty variant: the new path refers to the controller of prev.
from_previous_box_shared(dst, prev) == prev.congestion

\* from_previous, line 54: the controller of the path built into slot dst is
\* the box clone_box returns (a fresh one, at dst), never the box of prev.
from_previous_box(dst, prev) == dst

\* Faulty variant: the bytes about to be sent are not counted.
anti_amplification_blocked_ignoring_bytes(self, bytes_to_send) ==
    /\ ~self.validated
    /\ wrapping_mul(self.total_recvd, 3) < self.total_sent

\* PathData::anti_amplification_blocked (lines 73-75).
anti_amplification_blocked(self, bytes_to_send) ==
    /\ ~self.validated
    /\ wrapping_mul(self.total_recvd, 3)
         < wrapping_add(self.total_sent, bytes_to_send)

\* Whether a build with overflow checks panics in the gate instead.
anti_amplification_overflows(self, bytes_to_send) ==
    /\ ~self.validated
    /\ \/ self.total_recvd * 3 >= Modulus
       \/ self.total_sent + bytes_to_send >= Modulus

\* ------------------------------------------------- the connection's steps
\* ghost[s]: how the path in slot s was built, and the history of the
\* estimator it holds (its initial guess, whether update has run on it, the
\* smallest sample taken on it since new built it: est_min) and of the path
\* (the smallest sample taken on this path: path_min);
\* last: the step just taken, with its arguments.
NoGhost == [origin |-> "none", guess |-> 0, sampled |-> FALSE,
            est_min |-> None, path_min |-> None]

\* The smallest sample so far, after one more sample.
Lowest(so_far, rtt) == IF so_far = None THEN Some(rtt) ELSE Some(Min(so_far[1], rtt))

Init_paths == [s \in Slots |-> NoPath]

Init ==
    /\ paths = Init_paths
    /\ heap = [s \in Slots |-> NoCtrl]
    /\ ghost = [s \in Slots |-> NoGhost]
    /\ last = [op |-> "init"]

\* A path is created in slot s with a controller built for it.
NewPath(s, remote, initial_rtt, w, now, validated) ==
    /\ paths' = [paths EXCEPT ![s] =
                   PathData_new(remote, initial_rtt, s, Controller(w), now, validated)]
    /\ heap' = [heap EXCEPT ![s] = Controller(w)]
    /\ ghost' = [ghost EXCEPT ![s] =
                   [origin |-> "new", guess |-> initial_rtt, sampled |-> FALSE,
                    est_min |-> None, path_min |-> None]]
    /\ last' = [op |-> "new", slot |-> s, remote |-> remote,
                initial_rtt |-> initial_rtt, window |-> w, now |-> now,
                validated |-> validated]

\* Migration: slot dst gets the path built by from_previous from slot src.
Migrate(dst, src, remote, now) ==
    /\ dst # src
    /\ paths[src].exists
    /\ LET prev == paths[src]
           ctrl == clone_box(heap[prev.congestion])
           box == from_previous_box(dst, prev)
       IN  /\ paths' = [paths EXCEPT ![dst] =
                          PathData_from_previous(remote, prev, box, ctrl, now)]
           /\ heap' = [heap EXCEPT ![dst] = ctrl]
    /\ ghost' = [ghost EXCEPT ![dst] =
                   [ghost[src] EXCEPT !.origin = "from_previous",
                                      !.path_min = None]]
    /\ last' = [op |-> "from_previous", slot |-> dst, src |-> src,
                remote |-> remote, now |-> now]

\* A datagram of n bytes is sent on the path, which the gate must permit.
Send(s, n) ==
    /\ paths[s].exists
    /\ ~anti_amplification_blocked(paths[s], n)
    /\ paths' = [paths EXCEPT ![s].total_sent = @ + n]
    /\ last' = [op |-> "send", slot |-> s]
    /\ UNCHANGED << heap, ghost >>

\* A datagram of n bytes is received on the path.
Recv(s, n) ==
    /\ paths[s].exists
    /\ paths' = [paths EXCEPT ![s].total_recvd = @ + n]
    /\ last' = [op |-> "recv", slot |-> s]
    /\ UNCHANGED << heap, ghost >>

\* The peer's address is proven.
Validate(s) ==
    /\ paths[s].exists
    /\ ~paths[s].validated
    /\ paths' = [paths EXCEPT ![s].validated = TRUE]
    /\ last' = [op |-> "validate", slot |-> s]
    /\ UNCHANGED << heap, ghost >>

\* Faulty variant: taking a sample also marks the path validated.
UpdateRtt_validating(s, ack_delay, rtt) ==
    /\ paths[s].exists
    /\ paths' = [paths EXCEPT ![s].rtt = RttEstimator_update(@, ack_delay, rtt),
                              ![s].validated = TRUE]
    /\ ghost' = [ghost EXCEPT ![s].sampled = TRUE,
                              ![s].est_min = Lowest(@, rtt),
                              ![s].path_min = Lowest(@, rtt)]
    /\ last' = [op |-> "update", slot |-> s, ack_delay |-> ack_delay, rtt |-> rtt,
                pre |-> paths[s].rtt, first |-> ~ghost[s].sampled,
                adjusted |-> update_adjusted(paths[s].rtt, ack_delay, rtt),
                fault |-> update_faults(paths[s].rtt, ack_delay, rtt)]
    /\ UNCHANGED heap

\* An acknowledgment carries an RTT sample.
UpdateRtt(s, ack_delay, rtt) ==
    /\ paths[s].exists
    /\ paths' = [paths EXCEPT ![s].rtt = RttEstimator_update(@, ack_delay, rtt)]
    /\ ghost' = [ghost EXCEPT ![s].sampled = TRUE,
                              ![s].est_min = Lowest(@, rtt),
                              ![s].path_min = Lowest(@, rtt)]
    /\ last' = [op |-> "update", slot |-> s, ack_delay |-> ack_delay, rtt |-> rtt,
                pre |-> paths[s].rtt, first |-> ~ghost[s].sampled,
                adjusted |-> update_adjusted(paths[s].rtt, ack_delay, rtt),
                fault |-> update_faults(paths[s].rtt, ack_delay, rtt)]
    /\ UNCHANGED heap

\* The connection asks the path whether n bytes may be sent and reads the
\* estimator; the four methods take &self and assign nothing.
Query(s, n) ==
    /\ paths[s].exists
    /\ last' = [op |-> "query", slot |-> s, bytes_to_send |-> n,
                blocked |-> anti_amplification_blocked(paths[s], n),
                get |-> RttEstimator_get(paths[s].rtt),
                conservative |-> RttEstimator_conservative(paths[s].rtt),
                pto_base |-> RttEstimator_pto_base(paths[s].rtt)]
    /\ UNCHANGED << paths, heap, ghost >>

\* Explicit congestion notification is found unsupported on the path.
DisableEcn(s) ==
    /\ paths[s].exists
    /\ paths[s].sending_ecn
    /\ paths' = [paths EXCEPT ![s].sending_ecn = FALSE]
    /\ last' = [op |-> "ecn", slot |-> s]
    /\ UNCHANGED << heap, ghost >>

\* A path-validation probe is queued, is sent, and is answered.
QueueChallenge(s, token) ==
    /\ paths[s].exists
    /\ paths[s].challenge = None
    /\ paths' = [paths EXCEPT ![s].challenge = Some(token),
                              ![s].challenge_pending = TRUE]
    /\ last' = [op |-> "challenge", slot |-> s]
    /\ UNCHANGED << heap, ghost >>

SendChallenge(s) ==
    /\ paths[s].exists
    /\ paths[s].challenge_pending
    /\ paths' = [paths EXCEPT ![s].challenge_pending = FALSE]
    /\ last' = [op |-> "challenge", slot |-> s]
    /\ UNCHANGED << heap, ghost >>

PathResponse(s, token) ==
    /\ paths[s].exists
    /\ paths[s].challenge = Some(token)
    /\ ~paths[s].challenge_pending
    /\ paths' = [paths EXCEPT ![s].challenge = None,
                              ![s].validated = TRUE]
    /\ last' = [op |-> "validate", slot |-> s]
    /\ UNCHANGED << heap, ghost >>

\* Path MTU discovery changes the MTU.
SetMtu(s, m) ==
    /\ paths[s].exists
    /\ paths[s].mtu # m
    /\ paths' = [paths EXCEPT ![s].mtu = m]
    /\ last' = [op |-> "mtu", slot |-> s]
    /\ UNCHANGED << heap, ghost >>

\* The path's congestion controller adapts its window.
Adapt(s, w) ==
    /\ paths[s].exists
    /\ heap[paths[s].congestion].window # w
    /\ heap' = [heap EXCEPT ![paths[s].congestion].window = w]
    /\ last' = [op |-> "adapt", slot |-> s]
    /\ UNCHANGED << paths, ghost >>

\* ------------------------------------------------ creation and migration
\* The connection's first path is built by new in the slot "path"; either
\* slot is then migrated into from the other, and the connection works on
\* the slot "path": every field of it changes.
Tokens == {7}
Windows == {InitialWindow, InitialWindow + 1}
Mtus == {MIN_MTU, MIN_MTU + 1}

Next ==
    \/ \E w \in Windows, v \in BOOLEAN :
          NewPath("path", "a", MaxGuess, w, 0, v)
    \/ \E dst \in Slots, src \in Slots :
          Migrate(dst, src, "b", 1)
    \/ paths["path"].exists /\ paths["path"].total_sent < MaxMigBytes
          /\ Send("path", 1)
    \/ paths["path"].exists /\ paths["path"].total_recvd < MaxMigBytes
          /\ Recv("path", 1)
    \/ Validate("path")
    \/ DisableEcn("path")
    \/ \E token \in Tokens : QueueChallenge("path", token)
    \/ SendChallenge("path")
    \/ \E token \in Tokens : PathResponse("path", token)
    \/ \E m \in Mtus : SetMtu("path", m)
    \/ \E w \in Windows : Adapt("path", w)
    \/ UpdateRtt("path", 1, MaxGuess - 1)

Spec == Init /\ [][Next]_vars

\* --------------------------------------------- the estimator on its own
\* One path, built by new from every guess, sampled with every (delay, rtt).
NextRtt ==
    \/ \E g \in 0..MaxGuess :
          NewPath("path", "a", g, InitialWindow, 0, TRUE)
    \/ \E d \in 0..MaxDelay, r \in 0..MaxRtt :
          UpdateRtt("path", d, r)

SpecRtt == Init /\ [][NextRtt]_vars

\* ------------------------------------------- estimators across migration
\* The first path is built by new; either slot is migrated into from the
\* other, and both paths are sampled with every (delay, rtt).
NextMigRtt ==
    \/ NewPath("path", "a", MaxMigRtt, InitialWindow, 0, TRUE)
    \/ \E dst \in Slots, src \in Slots :
          Migrate(dst, src, "b", 1)
    \/ \E s \in Slots, d \in 0..1, r \in 1..MaxMigRtt :
          UpdateRtt(s, d, r)

SpecMigRtt == Init /\ [][NextMigRtt]_vars

\* ------------------------------------------- queries and samples on a path
\* One path, built by new, whose every field is moved by the connection
\* while it is queried and sampled.
NextFrame ==
    \/ \E v \in BOOLEAN :
          NewPath("path", "a", MaxMigRtt, InitialWindow, 0, v)
    \/ paths["path"].exists /\ paths["path"].total_sent < MaxMigBytes
          /\ Send("path", 1)
    \/ paths["path"].exists /\ paths["path"].total_recvd < MaxMigBytes
          /\ Recv("path", 1)
    \/ Validate("path")
    \/ DisableEcn("path")
    \/ \E token \in Tokens : QueueChallenge("path", token)
    \/ SendChallenge("path")
    \/ \E m \in Mtus : SetMtu("path", m)
    \/ \E d \in 0..1, r \in 1..MaxMigRtt :
          UpdateRtt("path", d, r)
    \/ \E n \in 0..MaxDatagram :
          Query("path", n)

SpecFrame == Init /\ [][NextFrame]_vars

\* ------------------------------------------- the gate over the full width
\* The gate is a function of validated, the two counters and the bytes to
\* send: one path whose counters hold any value of the width, asked about
\* every datagram size, by a build with or without overflow checks.
GatePath(validated, total_sent, total_recvd) ==
    [PathData_new("a", MaxGuess, "path", Controller(InitialWindow), 0, validated)
        EXCEPT !.total_sent = total_sent, !.total_recvd = total_recvd]

InitGate ==
    /\ \E v \in BOOLEAN, sent \in 0..(Modulus - 1), recvd \in 0..(Modulus - 1) :
          paths = [Init_paths EXCEPT !["path"] = GatePath(v, sent, recvd)]
    /\ heap = [s \in Slots |-> IF s = "path" THEN Controller(InitialWindow) ELSE NoCtrl]
    /\ ghost = [s \in Slots |-> IF s = "path"
                                 THEN [NoGhost EXCEPT !.origin = "new",
                                                      !.guess = MaxGuess]
                                 ELSE NoGhost]
    /\ last = [op |-> "init"]

\* One call of the gate: an optimised build wraps, a build with overflow
\* checks panics when the product or the sum leaves the width.
GateCall(s, n, overflow_checks) ==
    /\ paths[s].exists
    /\ last' = [op |-> "gate", slot |-> s, bytes_to_send |-> n,
                overflow_checks |-> overflow_checks,
                outcome |-> IF overflow_checks
                               /\ anti_amplification_overflows(paths[s], n)
                            THEN "panic"
                            ELSE IF anti_amplification_blocked(paths[s], n)
                                 THEN "blocked"
                                 ELSE "unblocked"]
    /\ UNCHANGED << paths, heap, ghost >>

NextGate ==
    \E n \in 0..MaxDatagram, overflow_checks \in BOOLEAN :
        GateCall("path", n, overflow_checks)

SpecGate == InitGate /\ [][NextGate]_vars

\* ------------------------------------------------ the gate and the counters
\* Two paths, created validated or not, migrated in both directions; the
\* datagrams are capped so that the counters stay far below the u64 wrap.
MaxSent == 3 * MaxRecvd + MaxDatagram

NextAmp ==
    \/ \E s \in Slots, v \in BOOLEAN :
          NewPath(s, "a", MaxGuess, InitialWindow, 0, v)
    \/ \E dst \in Slots, src \in Slots :
          Migrate(dst, src, "b", 0)
    \/ \E s \in Slots, n \in 1..MaxDatagram :
          paths[s].exists /\ paths[s].total_sent + n <= MaxSent /\ Send(s, n)
    \/ \E s \in Slots, n \in 1..MaxDatagram :
          paths[s].exists /\ paths[s].total_recvd + n <= MaxRecvd /\ Recv(s, n)
    \/ \E s \in Slots :
          Validate(s)

SpecAmp == Init /\ [][NextAmp]_vars

\* ================================================================ claims
\* The steps that change a field of one path after it was built.
Mutations == {"send", "recv", "validate", "update", "ecn", "challenge", "mtu", "adapt"}

\* What the connection reads of the path in slot s: its estimator, the window
\* its controller reports, its counters, its MTU and its validation.
Observed(s) ==
    IF paths[s].exists
    THEN [rtt |-> paths[s].rtt,
          window |-> window(heap[paths[s].congestion]),
          total_sent |-> paths[s].total_sent,
          total_recvd |-> paths[s].total_recvd,
          mtu |-> paths[s].mtu,
          validated |-> paths[s].validated]
    ELSE NoPath

\* C1 (as stated): on every path and for every bytes_to_send, the gate
\* answers true exactly when the path is not validated and 3 * total_recvd is
\* less than total_sent + bytes_to_send: never on a validated path, not when
\* the sum equals 3 * total_recvd, and always when it is 3 * total_recvd + 1.
\* It holds on every path whose product and sum stay within the counters'
\* width (all of SpecAmp) and fails where they leave it (SpecGate).
C1_GateIsStrictThreeTimes ==
    \A s \in Slots : paths[s].exists =>
      \A n \in 0..(MaxSent + 1) :
        LET p == paths[s]
            blocked == anti_amplification_blocked(p, n)
        IN  /\ blocked = (~p.validated /\ 3 * p.total_recvd < p.total_sent + n)
            /\ (p.validated => ~blocked)
            /\ (~p.validated /\ p.total_sent + n = 3 * p.total_recvd => ~blocked)
            /\ (~p.validated /\ p.total_sent + n = 3 * p.total_recvd + 1 => blocked)

\* C2: when bytes are only sent where the gate permits them, receive totals
\* only grow and validation is only gained, a path that is not validated has
\* never sent more than three times what it received, whether it was built
\* by new or by from_previous.
C2_UnvalidatedWithinThreeTimes ==
    \A s \in Slots :
      (paths[s].exists /\ ~paths[s].validated)
        => paths[s].total_sent <= 3 * paths[s].total_recvd

\* C2 witness: a migrated, still unvalidated path that received and then sent
\* up to its limit, beside a source path that sent beyond three times.
C2_Witness ==
    \E s \in Slots, o \in Slots :
      /\ ghost[s].origin = "from_previous"
      /\ ~paths[s].validated
      /\ paths[s].total_recvd = MaxRecvd
      /\ paths[s].total_sent = 3 * MaxRecvd
      /\ o # s
      /\ paths[o].exists
      /\ paths[o].total_sent > 3 * paths[o].total_recvd

\* C3: whatever the source path is, the path from_previous returns is not
\* validated, has both counters at zero, no challenge outstanding or pending,
\* and sends ECN.
C3_FromPreviousResets ==
    last.op = "from_previous" =>
      LET p == paths[last.slot]
      IN  /\ p.validated = FALSE
          /\ p.total_sent = 0
          /\ p.total_recvd = 0
          /\ p.challenge = None
          /\ p.challenge_pending = FALSE
          /\ p.sending_ecn = TRUE

\* C3 witness: from_previous has just run on a validated source with nonzero
\* counters, a challenge outstanding and ECN switched off.
C3_Witness ==
    /\ last.op = "from_previous"
    /\ LET prev == paths[last.src]
       IN  /\ prev.validated
           /\ prev.total_sent > 0
           /\ prev.total_recvd > 0
           /\ prev.challenge # None
           /\ ~prev.sending_ecn

\* C4: the path from_previous returns has the source's MTU, the source's
\* estimator (latest, smoothed, variance and minimum as they are at the call)
\* and a controller reporting the source's current window.
C4_FromPreviousInherits ==
    last.op = "from_previous" =>
      LET p == paths[last.slot]
          prev == paths[last.src]
      IN  /\ p.mtu = prev.mtu
          /\ p.rtt.latest = prev.rtt.latest
          /\ p.rtt.smoothed = prev.rtt.smoothed
          /\ p.rtt.var = prev.rtt.var
          /\ p.rtt.min = prev.rtt.min
          /\ window(heap[p.congestion]) = window(heap[prev.congestion])

\* C4 witness: from_previous has just run on a source whose estimator has
\* samples and differs from a fresh one, whose window is not the initial
\* window and whose MTU is not the minimum.
C4_Witness ==
    /\ last.op = "from_previous"
    /\ LET prev == paths[last.src]
       IN  /\ prev.rtt.smoothed # None
           /\ prev.rtt # RttEstimator_new(ghost[last.src].guess)
           /\ prev.rtt # RttEstimator_new(RttEstimator_get(prev.rtt))
           /\ window(heap[prev.congestion]) # initial_window(heap[prev.congestion])
           /\ prev.mtu # MIN_MTU

\* C5: from_previous leaves the source path and its controller as they were,
\* and every later change of one path (RTT sample, window adaptation, counter
\* increment, MTU change, validation, ...) leaves what is observed of the
\* other path as it was.
C5_PathsShareNothing ==
    [][ \A s \in Slots : \A o \in Slots \ {s} :
          /\ (last'.op = "from_previous" /\ last'.slot = s /\ last'.src = o =>
                paths'[o] = paths[o] /\ Observed(o)' = Observed(o))
          /\ (last'.op \in Mutations /\ last'.slot = s =>
                Observed(o)' = Observed(o))
      ]_vars

\* C5 witness: the window of one path has just been adapted while the other
\* path, which from_previous built from it or which it was built from, still
\* reports another window.
C5_Witness ==
    /\ last.op = "adapt"
    /\ \A s \in Slots : paths[s].exists
    /\ \E s \in Slots : ghost[s].origin = "from_previous"
    /\ \E s \in Slots, o \in Slots :
         window(heap[paths[s].congestion]) # window(heap[paths[o].congestion])

\* C6: the first update of an estimator leaves latest, smoothed and the
\* minimum at the sample and the variance at half of it, whatever the initial
\* guess and the reported ack delay.
C6_FirstSampleSeeds ==
    (last.op = "update" /\ last.first) =>
      LET e == paths[last.slot].rtt
      IN  /\ e.latest = last.rtt
          /\ e.smoothed = Some(last.rtt)
          /\ e.var = last.rtt \div 2
          /\ e.min = last.rtt

\* C6 witness: a first sample above the guess, reported with an ack delay.
C6_Witness ==
    /\ last.op = "update"
    /\ last.first
    /\ last.ack_delay > 0
    /\ last.rtt > ghost[last.slot].guess + last.ack_delay

\* C7: on every later update the minimum is lowered to min(minimum, rtt)
\* and the adjusted sample is rtt - delay when that lowered minimum plus the
\* delay is below rtt, and rtt otherwise; a sample at or below the previous
\* minimum is never adjusted.  The sample so chosen is the one the new
\* smoothed value is built from.
C7_AdjustedSample ==
    (last.op = "update" /\ ~last.first) =>
      LET lowered == Min(last.pre.min, last.rtt)
          chosen == IF lowered + last.ack_delay < last.rtt
                    THEN last.rtt - last.ack_delay
                    ELSE last.rtt
      IN  /\ paths[last.slot].rtt.min = lowered
          /\ last.adjusted = chosen
          /\ (last.rtt <= last.pre.min => last.adjusted = last.rtt)
          /\ paths[last.slot].rtt.smoothed
                = Some((7 * last.pre.smoothed[1] + chosen) \div 8)

\* C7 witness: a later sample that lies exactly the reported delay above the
\* minimum, so that the delay is not subtracted.
C7_Witness ==
    /\ last.op = "update"
    /\ ~last.first
    /\ last.ack_delay > 0
    /\ last.pre.min + last.ack_delay = last.rtt
    /\ last.adjusted = last.rtt

\* C8: on every later update, with s and v the smoothed value and variance
\* before the call and a the adjusted sample, the variance becomes
\* (3v + |s - a|) / 4 and the smoothed value (7s + a) / 8, truncated.
C8_SmoothingFormulas ==
    (last.op = "update" /\ ~last.first) =>
      LET s == last.pre.smoothed[1]
          v == last.pre.var
          a == last.adjusted
          dist == IF s > a THEN s - a ELSE a - s
          e == paths[last.slot].rtt
      IN  /\ e.var = (3 * v + dist) \div 4
          /\ e.smoothed = Some((7 * s + a) \div 8)

\* C8 witness: a later update with a subtracted delay whose new smoothed
\* value is truncated and lies at another distance from the sample than the
\* old one, so that the old and the new value give different variances.
C8_Witness ==
    /\ last.op = "update"
    /\ ~last.first
    /\ last.adjusted < last.rtt
    /\ LET s == last.pre.smoothed[1]
           a == last.adjusted
           after == paths[last.slot].rtt.smoothed[1]
           dist == IF after > a THEN after - a ELSE a - after
       IN  /\ (7 * s + a) % 8 # 0
           /\ after # s
           /\ paths[last.slot].rtt.var # (3 * last.pre.var + dist) \div 4

\* C9: an estimator built by new has, before any update, no smoothed value
\* and variance = latest / 2 = guess / 2; after an update it has a smoothed
\* value, in every later state.
C9_SmoothedPresence ==
    \A s \in Slots : paths[s].exists =>
      LET e == paths[s].rtt
      IN  /\ (~ghost[s].sampled =>
                /\ e.smoothed = None
                /\ e.latest = ghost[s].guess
                /\ e.var = e.latest \div 2
                /\ e.var = ghost[s].guess \div 2)
          /\ (ghost[s].sampled => e.smoothed # None)

\* C9 witness: an estimator built from an odd guess above one and not yet
\* sampled.
C9_Witness ==
    /\ last.op = "new"
    /\ ~ghost[last.slot].sampled
    /\ ghost[last.slot].guess > 1
    /\ ghost[last.slot].guess % 2 = 1
    /\ paths[last.slot].rtt.smoothed = None

\* C10: get() is latest, the initial guess, while no sample has arrived and
\* the smoothed value once one has.
C10_GetDelegates ==
    \A s \in Slots : paths[s].exists =>
      LET e == paths[s].rtt
      IN  /\ (~ghost[s].sampled =>
                RttEstimator_get(e) = e.latest /\ RttEstimator_get(e) = ghost[s].guess)
          /\ (ghost[s].sampled =>
                e.smoothed # None /\ RttEstimator_get(e) = e.smoothed[1])

\* C10 witness: a sampled estimator whose smoothed value is not its latest
\* sample.
C10_Witness ==
    \E s \in Slots :
      /\ paths[s].exists
      /\ ghost[s].sampled
      /\ paths[s].rtt.smoothed # Some(paths[s].rtt.latest)

\* C11: pto_base() is get() + max(4 * variance, TIMER_GRANULARITY): it is
\* never below get() + TIMER_GRANULARITY, and with get() held fixed a larger
\* variance never gives a smaller pto_base().
C11_PtoBase ==
    \A s \in Slots : paths[s].exists =>
      LET e == paths[s].rtt
          floor == IF 4 * e.var > TIMER_GRANULARITY
                   THEN 4 * e.var
                   ELSE TIMER_GRANULARITY
      IN  /\ RttEstimator_pto_base(e) = RttEstimator_get(e) + floor
          /\ RttEstimator_pto_base(e) >= RttEstimator_get(e) + TIMER_GRANULARITY
          /\ \A v \in 0..MaxRtt :
               LET f == [e EXCEPT !.var = v]
               IN  /\ RttEstimator_get(f) = RttEstimator_get(e)
                   /\ (v >= e.var =>
                         RttEstimator_pto_base(f) >= RttEstimator_pto_base(e))
                   /\ (v <= e.var =>
                         RttEstimator_pto_base(f) <= RttEstimator_pto_base(e))

\* C11 witness: a sampled estimator whose variance has decayed to zero, so
\* that the timer granularity is what is added to a nonzero get().
C11_Witness ==
    \E s \in Slots :
      /\ paths[s].exists
      /\ ghost[s].sampled
      /\ last.op = "update"
      /\ ~last.first
      /\ last.pre.var > 0
      /\ paths[s].rtt.var = 0
      /\ RttEstimator_get(paths[s].rtt) > 0
      /\ RttEstimator_pto_base(paths[s].rtt)
           = RttEstimator_get(paths[s].rtt) + TIMER_GRANULARITY

\* C12: conservative() is the larger of get() and latest: at least both,
\* equal to one of them, and the initial guess before any sample.
C12_Conservative ==
    \A s \in Slots : paths[s].exists =>
      LET e == paths[s].rtt
          c == RttEstimator_conservative(e)
      IN  /\ c >= RttEstimator_get(e)
          /\ c >= e.latest
          /\ (c = RttEstimator_get(e) \/ c = e.latest)
          /\ (~ghost[s].sampled => c = ghost[s].guess)

\* C12 witness: a sampled estimator whose latest sample is above its
\* smoothed value.
C12_Witness ==
    \E s \in Slots :
      /\ paths[s].exists
      /\ ghost[s].sampled
      /\ paths[s].rtt.latest > RttEstimator_get(paths[s].rtt)
      /\ RttEstimator_conservative(paths[s].rtt) = paths[s].rtt.latest

\* C13: whatever its arguments and whatever the slot held before, the path
\* new returns has no challenge outstanding or pending, sends ECN, has both
\* counters at zero, the minimum MTU, validated as supplied, and an estimator
\* with latest = minimum = guess, variance = guess / 2 and no smoothed value.
C13_NewDefaults ==
    last.op = "new" =>
      LET p == paths[last.slot]
      IN  /\ p.challenge = None
          /\ p.challenge_pending = FALSE
          /\ p.sending_ecn = TRUE
          /\ p.total_sent = 0
          /\ p.total_recvd = 0
          /\ p.mtu = MIN_MTU
          /\ p.validated = last.validated
          /\ p.remote = last.remote
          /\ p.rtt.latest = last.initial_rtt
          /\ p.rtt.min = last.initial_rtt
          /\ p.rtt.var = last.initial_rtt \div 2
          /\ p.rtt.smoothed = None

\* C13 witness: new has just built an unvalidated path from an odd guess and
\* a controller whose window is not its initial window, after an earlier
\* path of the connection was migrated.
C13_Witness ==
    /\ last.op = "new"
    /\ ~last.validated
    /\ last.initial_rtt % 2 = 1
    /\ last.window # InitialWindow
    /\ paths["prev_path"].exists

\* C14 (as stated): on every path with at least one sample of its own,
\* including a path made by from_previous, the minimum equals the smallest
\* sample taken on that path. from_previous copies the estimator with its
\* minimum (line 58), so this fails on a migrated path whose predecessor saw
\* a smaller sample.
C14_MinOfPathSamples ==
    \A s \in Slots :
        (paths[s].exists /\ ghost[s].path_min # None)
            => paths[s].rtt.min = ghost[s].path_min[1]

\* C14 (amended): once a sample has been taken on an estimator since new
\* built it, its minimum equals the smallest sample taken on that estimator,
\* the samples taken on the paths it was copied from included and whatever
\* the reported delays were; on a path built by new that is the smallest
\* sample taken on the path; before the first sample it is the initial guess.
C14_MinOfEstimatorSamples ==
    \A s \in Slots :
        paths[s].exists =>
            /\ ghost[s].est_min # None
                   => paths[s].rtt.min = ghost[s].est_min[1]
            /\ ghost[s].est_min = None
                   => paths[s].rtt.min = ghost[s].guess
            /\ (ghost[s].origin = "new" /\ ghost[s].path_min # None)
                   => paths[s].rtt.min = ghost[s].path_min[1]
            /\ ghost[s].path_min # None
                   => /\ ghost[s].est_min # None
                      /\ ghost[s].est_min[1] <= ghost[s].path_min[1]

\* C14 witness: a sample with a reported delay has just been taken on a
\* migrated path whose own samples are all larger than its minimum, which
\* is the smallest sample of the estimator it inherited.
C14_Witness ==
    /\ last.op = "update"
    /\ last.ack_delay > 0
    /\ ghost[last.slot].origin = "from_previous"
    /\ ghost[last.slot].path_min # None
    /\ paths[last.slot].rtt.min < ghost[last.slot].path_min[1]
    /\ paths[last.slot].rtt.min = ghost[last.slot].est_min[1]

\* C15: in every estimator state min <= latest; an update that is not the
\* first sample leaves min = min(previous min, rtt), so it never raises the
\* minimum, and the new minimum is the same for every reported delay.
C15_MinNeverAboveLatest ==
    \A s \in Slots :
        paths[s].exists =>
            /\ paths[s].rtt.min <= paths[s].rtt.latest
            /\ (last.op = "update" /\ last.slot = s /\ ~last.first) =>
                   /\ paths[s].rtt.min = Min(last.pre.min, last.rtt)
                   /\ paths[s].rtt.min <= last.pre.min
                   /\ \A d \in 0..MaxDelay :
                          RttEstimator_update(last.pre, d, last.rtt).min
                              = paths[s].rtt.min

\* C15 witness: a later sample, reported with a delay, is larger than the
\* minimum, which stays below the latest sample.
C15_Witness ==
    /\ last.op = "update"
    /\ ~last.first
    /\ last.ack_delay > 0
    /\ last.rtt > last.pre.min
    /\ paths[last.slot].rtt.min = last.pre.min
    /\ paths[last.slot].rtt.min < paths[last.slot].rtt.latest

C17_SmoothedNotBelowMin ==
    \A s \in Slots :
        (paths[s].exists /\ ghost[s].origin = "new") =>
            /\ RttEstimator_get(paths[s].rtt) >= paths[s].rtt.min
            /\ (last.op = "update" /\ last.slot = s) =>
                   /\ last.adjusted >= paths[s].rtt.min
                   /\ ~last.first =>
                          /\ paths[s].rtt.smoothed[1]
                                 >= Min(last.pre.smoothed[1], last.adjusted)
                          /\ paths[s].rtt.smoothed[1]
                                 <= Max(last.pre.smoothed[1], last.adjusted)

\* C17 witness: a later sample has its delay subtracted, the division by 8
\* truncates, and the smoothed value ends strictly above the minimum and
\* strictly between the previous smoothed value and the adjusted sample.
C17_Witness ==
    /\ last.op = "update"
    /\ ~last.first
    /\ ghost[last.slot].origin = "new"
    /\ last.adjusted < last.rtt
    /\ (7 * last.pre.smoothed[1] + last.adjusted) % 8 # 0
    /\ paths[last.slot].rtt.smoothed[1] < last.pre.smoothed[1]
    /\ paths[last.slot].rtt.smoothed[1] > last.adjusted
    /\ RttEstimator_get(paths[last.slot].rtt) > paths[last.slot].rtt.min

\* C18: the pacer of a path is built anew when the path is built: new makes
\* it from the initial guess, the controller's initial window, MIN_MTU and
\* the creation time; from_previous makes it from the source estimator's
\* get() at the call (its smoothed value if it has a sample, else its
\* initial guess), the cloned controller's current window, the source's mtu
\* and the creation time.
C18_PacerBuiltAnew ==
    /\ last.op = "new" =>
           paths[last.slot].pacing
               = Pacer_new(last.initial_rtt, InitialWindow, MIN_MTU, last.now)
    /\ last.op = "from_previous" =>
           LET prev == paths[last.src]
               p == paths[last.slot]
           IN  /\ p.pacing = Pacer_new(IF ghost[last.src].sampled
                                          THEN prev.rtt.smoothed[1]
                                          ELSE ghost[last.src].guess,
                                       heap[p.congestion].window,
                                       prev.mtu, last.now)
               /\ heap[p.congestion].window = heap[prev.congestion].window

\* C18 witness: from_previous has just built a path from a sampled source
\* whose window and mtu have moved from their defaults; the new pacer
\* differs from the source's pacer in every part.
C18_Witness ==
    /\ last.op = "from_previous"
    /\ ghost[last.src].sampled
    /\ paths[last.slot].pacing.smoothed_rtt # ghost[last.src].guess
    /\ paths[last.slot].pacing.smoothed_rtt # paths[last.src].pacing.smoothed_rtt
    /\ paths[last.slot].pacing.window # InitialWindow
    /\ paths[last.slot].pacing.window # paths[last.src].pacing.window
    /\ paths[last.slot].pacing.mtu # MIN_MTU
    /\ paths[last.slot].pacing.mtu # paths[last.src].pacing.mtu
    /\ paths[last.slot].pacing.now # paths[last.src].pacing.now

\* C19: a query (the gate, get, conservative, pto_base) changes no field of
\* the path or of its estimator; an update changes only the estimator of its
\* path (latest, smoothed, var, min) and leaves validated, the counters, the
\* challenge fields, sending_ecn and mtu alone, so neither changes the gate's
\* answer for any number of bytes.
C19_QueriesAndSamplesFrame ==
    [][ \A s \in Slots :
          /\ (last'.op = "query" /\ last'.slot = s) =>
                 /\ paths' = paths
                 /\ heap' = heap
                 /\ last'.blocked
                        = anti_amplification_blocked(paths'[s], last'.bytes_to_send)
                 /\ last'.get = RttEstimator_get(paths'[s].rtt)
                 /\ last'.conservative = RttEstimator_conservative(paths'[s].rtt)
                 /\ last'.pto_base = RttEstimator_pto_base(paths'[s].rtt)
          /\ (last'.op = "update" /\ last'.slot = s) =>
                 /\ paths' = [paths EXCEPT ![s].rtt = paths'[s].rtt]
                 /\ heap' = heap
                 /\ \A n \in 0..MaxDatagram :
                        anti_amplification_blocked(paths'[s], n)
                            = anti_amplification_blocked(paths[s], n)
      ]_vars

\* C19 witness: a sample has just been taken on an unvalidated path that is
\* blocked for one byte and whose counters, challenge, ECN flag and mtu have
\* all left their initial values, and the sample changed the estimator.
C19_Witness ==
    /\ last.op = "update"
    /\ ~paths[last.slot].validated
    /\ anti_amplification_blocked(paths[last.slot], MaxDatagram)
    /\ paths[last.slot].total_recvd > 0
    /\ paths[last.slot].total_sent > 0
    /\ paths[last.slot].challenge # None
    /\ ~paths[last.slot].sending_ecn
    /\ paths[last.slot].mtu # MIN_MTU
    /\ paths[last.slot].rtt # last.pre

\* C20 (as stated): for all counter values of the width and every number of
\* bytes, the gate answers as the comparison 3 * total_recvd <
\* total_sent + bytes_to_send over unbounded integers does, and raises no
\* fault. The product and the sum are computed in the width: they wrap in an
\* optimised build and panic in a build with overflow checks.
C20_GateAsUnbounded ==
    last.op = "gate" =>
        LET p == paths[last.slot]
            unbounded == /\ ~p.validated
                         /\ 3 * p.total_recvd < p.total_sent + last.bytes_to_send
        IN  /\ last.outcome # "panic"
            /\ (last.outcome = "blocked") = unbounded

====
